---------------------------- MODULE Spec2Model ----------------------------
(***************************************************************************)
(* State machine of nvqir::TensorNetSimulationState                        *)
(* (runtime/nvqir/cutensornet/tn_simulation_state.cpp): two tensor-network *)
(* simulation states that share one scratch pad and one device memory,     *)
(* the operators a circuit builder appends to their networks, and the      *)
(* queries overlap, getAmplitude, toHost, dump and getTensor, with         *)
(* destroyState and createFromSizeAndPtr for the state's lifecycle.        *)
(*                                                                         *)
(* Amplitudes.  Every gate tensor of the model has real entries of the     *)
(* form k / sqrt(2)^rt with k an integer, so a complex<double> is kept     *)
(* exactly as the record [re |-> k, rt |-> r] in lowest terms (the         *)
(* imaginary part is identically 0 for these gates).                       *)
(***************************************************************************)
EXTENDS Integers, Sequences, FiniteSets

\* ------------------------------------------------------------------ bounds
\* Largest number of operators appended to the networks, all together.
MaxOps == 2
\* Capacity of the scratch pad, in workspace units.
MaxScratch == 1

\* The small-system threshold of getAmplitude, scaled down so that both
\* sides of it lie within MaxQubits.
g_maxQubitsForStateContraction == 2

\* Qubit counts of a network: 0 up to one above the threshold.
MaxQubits == g_maxQubitsForStateContraction + 1

\* The simulation states: two tensor-network states and one state of
\* another representation (the argument of overlap is any SimulationState).
Mgrs == {"A", "B"}
\* The state the amplitude, host-transfer and dump queries are made on; the
\* other one serves as the second operand of overlap.
Queried == {"A"}
NonTN == "V"
States == Mgrs \cup {NonTN}

Null == "null"

\* -------------------------------------------------------------- arithmetic
Pow2(n) == 2 ^ n

Abs(x) == IF x < 0 THEN -x ELSE x

\* k / sqrt(2)^rt in lowest terms.
RECURSIVE Canon(_, _)
Canon(k, rt) ==
  IF k = 0 THEN [re |-> 0, rt |-> 0]
  ELSE IF rt >= 2 /\ k % 2 = 0 THEN Canon(k \div 2, rt - 2)
  ELSE [re |-> k, rt |-> rt]

Zero == [re |-> 0, rt |-> 0]

\* std::abs of an amplitude.
StdAbs(a) == [re |-> Abs(a.re), rt |-> a.rt]

\* Bit q of index j.
Bit(j, q) == (j \div Pow2(q)) % 2

\* ------------------------------------------------------------ gate tensors
\* Device data of a gate: a dim x dim matrix of integers, row by row, and
\* the exponent rt of the common factor 1 / sqrt(2)^rt.
Hadamard == [mat |-> <<<<1, 1>>, <<1, -1>>>>, rt |-> 1]
PauliX == [mat |-> <<<<0, 1>>, <<1, 0>>>>, rt |-> 0]
\* |1><0|: the projector tensor of a state prepared from the vector (0, 1).
Raise == [mat |-> <<<<0, 0>>, <<1, 0>>>>, rt |-> 0]

\* The operators the circuit builder can append to a network of n qubits:
\* targets, controls, tensor data, isUnitary.
Gate(t, c, d, u) == [targets |-> t, controls |-> c, data |-> d, isUnitary |-> u]
GateLib(n) ==
  (IF n >= 1 THEN {Gate(<<0>>, <<>>, Hadamard, TRUE),
                   Gate(<<0>>, <<>>, Raise, FALSE)} ELSE {})
  \cup (IF n >= 2 THEN {Gate(<<1>>, <<0>>, PauliX, TRUE)} ELSE {})

\* Eigen's transposeInPlace on the dim x dim matrix of a tensor.
Transpose(d) ==
  [mat |-> [i \in DOMAIN d.mat |-> [j \in DOMAIN d.mat |-> d.mat[j][i]]],
   rt |-> d.rt]

\* ------------------------------------------------------------------- state
VARIABLES
  m_state,               \* per state: its TensorNetState (numQubits, m_tensorOps), or NullState
  m_contractedStateVec,  \* per state: the cached state vector, <<>> when empty
  deviceMem,             \* device memory: deviceMem[m][i] is the data of handle <<m, i>>
  scratchPad,            \* the shared ScratchDeviceMem: its capacity scratchSize
  last                   \* the last call: what it was, how it ended, what it returned

vars == <<m_state, m_contractedStateVec, deviceMem, scratchPad, last>>

\* An AppliedTensorOp of a network.
TensorOp(t, c, h, u, a) ==
  [targetQubitIds |-> t, controlQubitIds |-> c, deviceData |-> h,
   isUnitary |-> u, isAdjoint |-> a]

\* The tensor a handle refers to in device memory mem.
Deref(mem, h) == mem[h[1]][h[2]]

\* m_state after reset(): the unique_ptr holds no network.
NullState == [numQubits |-> -1, m_tensorOps |-> <<>>]
Released(m) == m_state[m] = NullState

getNumQubits(m) == m_state[m].numQubits

getNumTensors(m) == Len(m_state[m].m_tensorOps)

TotalOps == getNumTensors("A") + getNumTensors("B")

\* ------------------------------------------------- the contraction backend
\* The matrix the backend applies for an operator: the tensor data, or its
\* conjugate transpose when a unitary operator is applied in adjoint form
\* (the data is real).  For a non-unitary operator the adjoint flag does
\* not exchange the legs: overlap transposes its data itself.
EffectiveTensor(mem, op) ==
  IF op.isAdjoint /\ op.isUnitary THEN Transpose(Deref(mem, op.deviceData))
  ELSE Deref(mem, op.deviceData)

\* One operator applied to the raw vector v, a sequence whose entry j + 1
\* belongs to index j.  The operators of GateLib have one target qubit t:
\* entry j takes row Bit(j, t) of the 2 x 2 matrix against the two entries
\* that differ from j in bit t at most.  A controlled operator acts where
\* every control bit is 1 (the controlled tensors of GateLib have rt = 0,
\* so the untouched entries keep the scale).
ApplyOperator(mem, v, op) ==
  LET d == EffectiveTensor(mem, op).mat
      w == Pow2(op.targetQubitIds[1])
      c == op.controlQubitIds
      Entry(j) ==
        IF \A i \in 1..Len(c) : Bit(j, c[i]) = 1
        THEN LET b == (j \div w) % 2
                 j0 == j - (b * w)
             IN (d[b + 1][1] * v[j0 + 1]) + (d[b + 1][2] * v[j0 + w + 1])
        ELSE v[j + 1]
      RECURSIVE Build(_)
      Build(j) == IF j = Len(v) THEN <<>> ELSE <<Entry(j)>> \o Build(j + 1)
  IN Build(0)

RECURSIVE ApplyAll(_, _, _)
ApplyAll(mem, v, ops) ==
  IF ops = <<>> THEN v
  ELSE ApplyAll(mem, ApplyOperator(mem, v, Head(ops)), Tail(ops))

RECURSIVE SumRt(_, _)
SumRt(mem, ops) ==
  IF ops = <<>> THEN 0
  ELSE Deref(mem, Head(ops).deviceData).rt + SumRt(mem, Tail(ops))

\* |0...0> on n qubits.
RECURSIVE ZeroState(_)
ZeroState(k) == IF k = 1 THEN <<1>> ELSE ZeroState(k - 1) \o <<0>>

\* TensorNetState::getStateVector(): the dense vector of the network net
\* over device memory mem, entry i + 1 being the amplitude of index i.
getStateVector(mem, net) ==
  LET v == ApplyAll(mem, ZeroState(Pow2(net.numQubits)), net.m_tensorOps)
      rt == SumRt(mem, net.m_tensorOps)
      RECURSIVE Scaled(_)
      Scaled(i) == IF i > Len(v) THEN <<>> ELSE <<Canon(v[i], rt)>> \o Scaled(i + 1)
  IN Scaled(1)

\* TensorNetState::getStateVector(projectedModes, projectedModeValues): the
\* amplitudes of the indices that agree with the pinned values, in index
\* order (a single amplitude when every qubit is pinned).
getStateVectorProjected(mem, net, modes, values) ==
  LET sv == getStateVector(mem, net)
      Agrees(i) == \A k \in 1..Len(modes) : Bit(i - 1, modes[k]) = values[k]
      RECURSIVE Pick(_)
      Pick(i) == IF i > Len(sv) THEN <<>>
                 ELSE IF Agrees(i) THEN <<sv[i]>> \o Pick(i + 1)
                 ELSE Pick(i + 1)
  IN Pick(1)

\* std::iota(projectedModes.begin(), projectedModes.end(), 0)
Iota(n) == [i \in 1..n |-> i - 1]

\* ---------------------------------------------------------------- the calls
\* A record of a call: op and self name it, args are its arguments, status
\* is "ok" or the error thrown, ret the amplitudes returned, written or
\* printed, queries the backend queries the call issued, in order, api the
\* kinds of CUDA and cuTensorNet calls it made besides them, and live the
\* temporaries the call created and had not released when it ended.  temp
\* is the temporary network of overlap once its operators are applied,
\* NullState otherwise.
Call(op, self, args, status, ret, queries, api, live) ==
  [op |-> op, self |-> self, args |-> args, status |-> status, ret |-> ret,
   queries |-> queries, api |-> api, live |-> live, temp |-> NullState]

\* The arguments of a call: the other state of overlap, a size (the
\* workspace size the plan of overlap asks for, numElements of toHost) and
\* the basis state of getAmplitude.
Args(other, size, basisState) ==
  [other |-> other, size |-> size, basisState |-> basisState]
NoArgs == Args(Null, 0, <<>>)

FullQuery == [kind |-> "getStateVector", modes |-> <<>>, values |-> <<>>]
AccessorQuery(modes, values) ==
  [kind |-> "accessor", modes |-> modes, values |-> values]

\* A member call through the empty m_state dereferences a null pointer:
\* undefined behaviour, which crashes the process or goes on with garbage.
UndefinedOutcomes == {"null dereference: crash", "null dereference: garbage"}
UseAfterRelease(op, self, args) ==
  /\ \E outcome \in UndefinedOutcomes :
       last' = Call(op, self, args, outcome, <<>>, <<>>, {}, {})
  /\ UNCHANGED <<m_state, m_contractedStateVec, deviceMem, scratchPad>>

Init ==
  /\ m_state \in [Mgrs -> {[numQubits |-> n, m_tensorOps |-> <<>>] : n \in 0..MaxQubits}]
  /\ m_contractedStateVec = [m \in Mgrs |-> <<>>]
  /\ deviceMem = [m \in Mgrs |-> <<>>]
  /\ scratchPad = [scratchSize |-> MaxScratch]
  /\ last = Call("none", Null, NoArgs, "ok", <<>>, <<>>, {}, {})

\* The circuit builder appends operator g to the network of m; its tensor
\* data is placed in device memory under a fresh handle.
AppendOp(m, g) ==
  /\ ~Released(m)
  /\ TotalOps < MaxOps
  /\ deviceMem' = [deviceMem EXCEPT ![m] = Append(@, g.data)]
  /\ m_state' = [m_state EXCEPT ![m].m_tensorOps =
       Append(@, TensorOp(g.targets, g.controls, <<m, Len(deviceMem[m]) + 1>>,
                          g.isUnitary, FALSE))]
  /\ last' = Call("append", m, NoArgs, "ok", <<>>, <<>>, {}, {})
  /\ UNCHANGED <<m_contractedStateVec, scratchPad>>

\* An accumulation that adds the bits without shifting.
RECURSIVE AccumulateReverseNoShift(_, _, _)
AccumulateReverseNoShift(b, i, acc) ==
  IF i = 0 THEN acc ELSE AccumulateReverseNoShift(b, i - 1, acc + b[i])

\* The index of a basis state in the cached vector: std::accumulate over
\* the reversed assignment with acc -> (acc << 1) + bit.
RECURSIVE AccumulateReverse(_, _, _)
AccumulateReverse(b, i, acc) ==
  IF i = 0 THEN acc ELSE AccumulateReverse(b, i - 1, (acc * 2) + b[i])

\* An accumulation from the first qubit to the last.
BasisIndexBigEndian(b) ==
  LET RECURSIVE Forward(_, _)
      Forward(i, acc) == IF i > Len(b) THEN acc ELSE Forward(i + 1, (acc * 2) + b[i])
  IN Forward(1, 0)

BasisIndex(b) == AccumulateReverse(b, Len(b), 0)

\* The checks without the one for an empty assignment.
BasisErrorNoEmptyCheck(m, basisState) ==
  IF getNumQubits(m) # Len(basisState) THEN "invalid number of bits"
  ELSE IF \E i \in 1..Len(basisState) : basisState[i] # 0 /\ basisState[i] # 1
    THEN "invalid basis state"
  ELSE "ok"

\* The checks of getAmplitude on its argument, in program order: the error
\* thrown, or "ok".
BasisError(m, basisState) ==
  IF getNumQubits(m) # Len(basisState) THEN "invalid number of bits"
  ELSE IF \E i \in 1..Len(basisState) : basisState[i] # 0 /\ basisState[i] # 1
    THEN "invalid basis state"
  ELSE IF basisState = <<>> THEN "Empty basis state"
  ELSE "ok"

\* A fill on every call.
NeedsFillAlways(m) == TRUE

\* "If this is the first time, cache the state."
NeedsFill(m) == m_contractedStateVec[m] = <<>>

\* A cache that is overwritten on every call.
CacheFillAlways(m) == getStateVector(deviceMem, m_state[m])

\* The vector getAmplitude leaves in the cache.
CacheFill(m) ==
  IF NeedsFill(m) THEN getStateVector(deviceMem, m_state[m])
  ELSE m_contractedStateVec[m]

\* The threshold test with < for <=.
BelowThresholdStrict(m) == getNumQubits(m) < g_maxQubitsForStateContraction

\* The test that sends getAmplitude to the cached state vector.
BelowThreshold(m) == getNumQubits(m) <= g_maxQubitsForStateContraction

getAmplitude(m, basisState) ==
  IF Released(m)
  THEN UseAfterRelease("getAmplitude", m, Args(Null, 0, basisState))
  ELSE IF BasisError(m, basisState) # "ok" THEN
    /\ last' = Call("getAmplitude", m, Args(Null, 0, basisState), BasisError(m, basisState), <<>>, <<>>, {}, {})
    /\ UNCHANGED <<m_state, m_contractedStateVec, deviceMem, scratchPad>>
  ELSE IF BelowThreshold(m) THEN
    /\ m_contractedStateVec' = [m_contractedStateVec EXCEPT ![m] = CacheFill(m)]
    /\ last' = Call("getAmplitude", m, Args(Null, 0, basisState), "ok",
                    <<m_contractedStateVec'[m][BasisIndex(basisState) + 1]>>,
                    IF NeedsFill(m) THEN <<FullQuery>> ELSE <<>>,
                    {}, {})
    /\ UNCHANGED <<m_state, deviceMem, scratchPad>>
  ELSE
    /\ last' = Call("getAmplitude", m, Args(Null, 0, basisState), "ok",
                    <<getStateVectorProjected(deviceMem, m_state[m],
                        Iota(getNumQubits(m)), basisState)[1]>>,
                    <<AccessorQuery(Iota(getNumQubits(m)), basisState)>>,
                    {}, {})
    /\ UNCHANGED <<m_state, m_contractedStateVec, deviceMem, scratchPad>>

\* ------------------------------------------------------------------ overlap
Max(a, b) == IF a >= b THEN a ELSE b

\* std::reverse
Reverse(s) == [i \in 1..Len(s) |-> s[Len(s) + 1 - i]]

\* Bra-side operators left in the order of application.
BraOpsNoReverse(other) ==
  LET r == m_state[other].m_tensorOps
  IN [i \in 1..Len(r) |-> [r[i] EXCEPT !.isAdjoint = ~@]]

\* The bra-side operators: the copy of other's operators, reversed, each
\* with isAdjoint negated.  The copy holds the same deviceData handles.
BraOps(other) ==
  LET r == Reverse(m_state[other].m_tensorOps)
  IN [i \in 1..Len(r) |-> [r[i] EXCEPT !.isAdjoint = ~@]]

\* Device memory after the loop over the bra-side operators has handled
\* the first k of them: the data of every non-unitary one is copied to the
\* host, transposed and copied back to op.deviceData.
RECURSIVE TransposeNonUnitary(_, _, _)
TransposeNonUnitary(mem, ops, k) ==
  IF k = 0 THEN mem
  ELSE LET prev == TransposeNonUnitary(mem, ops, k - 1)
           h == ops[k].deviceData
       IN IF ops[k].isUnitary THEN prev
          ELSE [prev EXCEPT ![h[1]][h[2]] = Transpose(@)]

\* The CUDA and cuTensorNet calls of overlap, in program order; each of
\* them throws when the library reports an error.
OverlapSteps ==
  <<"cudaMemcpyDeviceToHost", "cudaMemcpyHostToDevice", "cutensornetCreateState",
    "cutensornetStateApplyTensorOperator", "cudaMalloc", "cutensornetCreateAccessor",
    "cutensornetAccessorConfigure", "cutensornetCreateWorkspaceDescriptor",
    "cutensornetAccessorPrepare", "cutensornetWorkspaceGetMemorySize",
    "cutensornetWorkspaceSetMemory", "cutensornetAccessorCompute", "cudaMemcpyResult",
    "cudaFree", "cutensornetDestroyWorkspaceDescriptor", "cutensornetDestroyAccessor",
    "cutensornetDestroyState">>

\* A fault is the position of the call that reports the error; the
\* position after the last call stands for no fault.
NoFault == Len(OverlapSteps) + 1
Faults == 1..NoFault

\* Position of a call in program order.
StepOf(f) == CHOOSE i \in DOMAIN OverlapSteps : OverlapSteps[i] = f
AtMemcpyHostToDevice == StepOf("cudaMemcpyHostToDevice")
AtCreateState == StepOf("cutensornetCreateState")
AtApplyTensorOperator == StepOf("cutensornetStateApplyTensorOperator")
AtMalloc == StepOf("cudaMalloc")
AtCreateAccessor == StepOf("cutensornetCreateAccessor")
AtCreateWorkspaceDescriptor == StepOf("cutensornetCreateWorkspaceDescriptor")
AtGetMemorySize == StepOf("cutensornetWorkspaceGetMemorySize")
AtSetMemory == StepOf("cutensornetWorkspaceSetMemory")
AtCompute == StepOf("cutensornetAccessorCompute")
AtFree == StepOf("cudaFree")
AtDestroyWorkspaceDescriptor == StepOf("cutensornetDestroyWorkspaceDescriptor")
AtDestroyAccessor == StepOf("cutensornetDestroyAccessor")

AllTemporaries == {"tempQuantumState", "d_overlap", "accessor", "workDesc"}

\* The temporaries that exist when overlap leaves by a throw of the call at
\* position p (a release that fails leaves its temporary in place).
LiveAtThrow(p) ==
  IF p <= AtCreateState THEN {}
  ELSE IF p <= AtMalloc THEN {"tempQuantumState"}
  ELSE IF p <= AtCreateAccessor THEN {"tempQuantumState", "d_overlap"}
  ELSE IF p <= AtCreateWorkspaceDescriptor
    THEN {"tempQuantumState", "d_overlap", "accessor"}
  ELSE IF p <= AtFree THEN AllTemporaries
  ELSE IF p = AtDestroyWorkspaceDescriptor
    THEN {"tempQuantumState", "accessor", "workDesc"}
  ELSE IF p = AtDestroyAccessor THEN {"tempQuantumState", "accessor"}
  ELSE {"tempQuantumState"}

\* The messages of the two errors overlap throws itself.
Insufficient == "Insufficient workspace size on Device"
Unsupported == "other types of state is not supported"

\* The type check made after the temporary network was set up.
UnsupportedOtherLate(self) ==
  Call("overlap", self, Args(NonTN, 0, <<>>), Unsupported,
       <<>>, <<>>, {"cutensornet"}, {"tempQuantumState"})

\* The throw of overlap on a state that is no tensor-network state.
UnsupportedOther(self) ==
  Call("overlap", self, Args(NonTN, 0, <<>>), Unsupported, <<>>, <<>>, {}, {})

\* The test with < for <=.
InsufficientWorkspaceStrict(worksize) == ~(worksize < scratchPad.scratchSize)

\* The test that sends overlap to its "Insufficient workspace" throw.
InsufficientWorkspace(worksize) == ~(worksize <= scratchPad.scratchSize)

\* overlap(other) on self.  worksize is the workspace size the backend's
\* plan asks for; fault is the library call that reports an error, if any,
\* and k the bra-side operator at which a fault of the transposition loop
\* strikes.
overlap(self, other, worksize, fault, k) ==
  IF other \notin Mgrs THEN
    /\ fault = NoFault
    /\ last' = UnsupportedOther(self)
    /\ UNCHANGED <<m_state, m_contractedStateVec, deviceMem, scratchPad>>
  ELSE IF Released(other) THEN
    /\ fault = NoFault /\ worksize = 0 /\ k = 0
    /\ UseAfterRelease("overlap", self, Args(other, worksize, <<>>))
  ELSE IF Released(self) /\ fault = NoFault THEN
    \* the loop over other's operators has run when getNumQubits() is called
    /\ worksize = 0 /\ k = 0
    /\ deviceMem' = TransposeNonUnitary(deviceMem, BraOps(other), getNumTensors(other))
    /\ \E outcome \in UndefinedOutcomes :
         last' = Call("overlap", self, Args(other, worksize, <<>>), outcome,
                      <<>>, <<>>,
                      IF \E i \in 1..getNumTensors(other) :
                           ~m_state[other].m_tensorOps[i].isUnitary
                      THEN {"cudaMemcpy"} ELSE {}, {})
    /\ UNCHANGED <<m_state, m_contractedStateVec, scratchPad>>
  ELSE
    LET tensorOps == BraOps(other)
        inLoop == fault <= AtMemcpyHostToDevice
        nbQubits == Max(getNumQubits(self), getNumQubits(other))
        allTensorOps == m_state[self].m_tensorOps \o tensorOps
        tempQuantumState == [numQubits |-> nbQubits, m_tensorOps |-> allTensorOps]
        insufficient == InsufficientWorkspace(worksize)
        thrown == fault # NoFault \/ insufficient
        computed == fault > AtCompute /\ ~insufficient
        copied == \E i \in 1..(IF inLoop THEN k ELSE Len(tensorOps)) :
                    ~tensorOps[i].isUnitary
        projectedModes == Iota(nbQubits)
        projectedModeValues == [i \in 1..nbQubits |-> 0]
    IN /\ IF inLoop THEN k \in 1..Len(tensorOps) /\ ~tensorOps[k].isUnitary ELSE k = 0
       /\ fault = AtApplyTensorOperator => allTensorOps # <<>>
       /\ insufficient => fault = NoFault
       /\ deviceMem' = TransposeNonUnitary(deviceMem, tensorOps,
                         IF inLoop THEN k - 1 ELSE Len(tensorOps))
       /\ Released(self) => inLoop
       /\ last' = [Call("overlap", self, Args(other, worksize, <<>>),
            IF fault # NoFault THEN "backend failure"
            ELSE IF insufficient THEN Insufficient
            ELSE "ok",
            IF thrown THEN <<>>
            ELSE <<StdAbs(getStateVectorProjected(deviceMem', tempQuantumState,
                            projectedModes, projectedModeValues)[1])>>,
            IF computed \/ fault = AtCompute
            THEN <<AccessorQuery(projectedModes, projectedModeValues)>> ELSE <<>>,
            (IF copied \/ computed THEN {"cudaMemcpy"} ELSE {})
            \cup (IF ~inLoop THEN {"cutensornet"} ELSE {})
            \cup (IF fault >= AtMalloc THEN {"cudaMalloc"} ELSE {})
            \cup (IF fault >= AtSetMemory /\ ~insufficient
                  THEN {"cutensornetWorkspaceSetMemory"} ELSE {}),
            IF fault # NoFault THEN LiveAtThrow(fault)
            ELSE IF insufficient THEN AllTemporaries
            ELSE {})
            EXCEPT !.temp = IF fault > AtApplyTensorOperator
                            THEN tempQuantumState ELSE NullState]
       /\ UNCHANGED <<m_state, m_contractedStateVec, scratchPad>>

\* The workspace sizes a plan may ask for: none, the capacity and one
\* above the capacity.  With a fault the size is 0: it is not asked for
\* when an earlier call fails, and it was no more than the capacity when a
\* later call fails.
WorkSizes(fault) ==
  IF fault = NoFault THEN {0, MaxScratch, MaxScratch + 1} ELSE {0}

\* The bra-side operators at which a fault of the transposition loop can
\* strike: the non-unitary ones (0 when the fault is elsewhere).
LoopPlaces(other, fault) ==
  IF other \in Mgrs /\ fault <= AtMemcpyHostToDevice
  THEN {i \in 1..getNumTensors(other) : ~BraOps(other)[i].isUnitary}
  ELSE {0}

\* ------------------------------------------------------------ toHost, dump
\* A buffer element the call has not written.
Unwritten == [re |-> 0, rt |-> -1]

\* The caller's buffer has room for BufferLen elements; numElements is the
\* length passed to toHost.
BufferLen == Pow2(MaxQubits) + 1

\* The lengths passed to toHost: the length of the state vector, one less
\* and one more (of a state without a network: 1).
Lengths(m) ==
  IF Released(m) THEN {1} ELSE {Pow2(getNumQubits(m)) + d : d \in {-1, 0, 1}}

\* toHost served from the amplitude cache when it is populated.
HostSourceCached(m) ==
  IF m_contractedStateVec[m] # <<>>
  THEN [vec |-> m_contractedStateVec[m], queries |-> <<>>]
  ELSE [vec |-> getStateVector(deviceMem, m_state[m]), queries |-> <<FullQuery>>]

\* Where toHost takes the state vector from, and the backend query that
\* costs.
HostSource(m) ==
  [vec |-> getStateVector(deviceMem, m_state[m]), queries |-> <<FullQuery>>]

\* The size test that passes a buffer that is too short.
DimensionMismatchTooLong(stateVec, numElements) == Len(stateVec) < numElements

\* The size test of toHost.
DimensionMismatch(stateVec, numElements) == Len(stateVec) # numElements

toHost(m, numElements) ==
  IF Released(m)
  THEN UseAfterRelease("toHost", m, Args(Null, numElements, <<>>))
  ELSE
  LET stateVec == HostSource(m).vec
  IN /\ last' =
          IF DimensionMismatch(stateVec, numElements)
          THEN Call("toHost", m, Args(Null, numElements, <<>>), "Dimension mismatch",
                    [i \in 1..BufferLen |-> Unwritten], HostSource(m).queries, {}, {})
          ELSE Call("toHost", m, Args(Null, numElements, <<>>), "ok",
                    [i \in 1..BufferLen |-> IF i <= numElements THEN stateVec[i]
                                            ELSE Unwritten],
                    HostSource(m).queries, {}, {})
     /\ UNCHANGED <<m_state, m_contractedStateVec, deviceMem, scratchPad>>

\* A dump that never looks at the cache.
PrintedFresh(m) ==
  [vec |-> getStateVector(deviceMem, m_state[m]), queries |-> <<FullQuery>>]

\* What dump prints, and the backend query that costs.
Printed(m) ==
  IF m_contractedStateVec[m] # <<>>
  THEN [vec |-> m_contractedStateVec[m], queries |-> <<>>]
  ELSE [vec |-> getStateVector(deviceMem, m_state[m]), queries |-> <<FullQuery>>]

\* dump(os): ret is what was written to os, one amplitude per line.
dump(m) ==
  IF m_contractedStateVec[m] = <<>> /\ Released(m)
  THEN UseAfterRelease("dump", m, NoArgs)
  ELSE /\ last' = Call("dump", m, NoArgs, "ok", Printed(m).vec, Printed(m).queries, {}, {})
       /\ UNCHANGED <<m_state, m_contractedStateVec, deviceMem, scratchPad>>

\* ------------------------------- getTensor, destroyState, createFromSizeAndPtr
\* A range test that also turns away the last operator.
IndexOutOfRangeEarly(m, tensorIdx) == tensorIdx + 1 >= getNumTensors(m)

\* The range test of getTensor.
IndexOutOfRange(m, tensorIdx) == tensorIdx >= getNumTensors(m)

\* The cudaq::SimulationState::Tensor exported for an operator.
Tensor(opTensor) ==
  [data |-> opTensor.deviceData,
   extents |-> [i \in 1..(2 * Len(opTensor.targetQubitIds)) |-> 2],
   fp_precision |-> "getPrecision()"]

\* getTensor(tensorIdx): ret holds the exported tensor.
getTensor(m, tensorIdx) ==
  IF Released(m)
  THEN UseAfterRelease("getTensor", m, Args(Null, tensorIdx, <<>>))
  ELSE /\ last' =
            IF IndexOutOfRange(m, tensorIdx)
            THEN Call("getTensor", m, Args(Null, tensorIdx, <<>>),
                      "Invalid tensor index", <<>>, <<>>, {}, {})
            ELSE Call("getTensor", m, Args(Null, tensorIdx, <<>>), "ok",
                      <<Tensor(m_state[m].m_tensorOps[tensorIdx + 1])>>, <<>>, {}, {})
       /\ UNCHANGED <<m_state, m_contractedStateVec, deviceMem, scratchPad>>

\* The indices passed to getTensor: up to one past the largest network.
TensorIndices == 0..(MaxOps + 1)

\* destroyState(): m_state.reset().
destroyState(m) ==
  /\ m_state' = [m_state EXCEPT ![m] = NullState]
  /\ last' = Call("destroyState", m, NoArgs, "ok", <<>>, <<>>, {}, {})
  /\ UNCHANGED <<m_contractedStateVec, deviceMem, scratchPad>>

\* The alternatives of cudaq::state_data that matter to createFromSizeAndPtr.
TensorStateData == "cudaq::TensorStateData"
DataTypes == {TensorStateData, "std::vector<std::complex<double>>"}

\* The scratch pad and the cuTensorNet handle every state of the process
\* holds a reference to.
ScratchPadRef == "scratchPad"
CutnHandleRef == "m_cutnHandle"

\* A reconstruction that takes any kind of data.
UnsupportedFormatNever(dataType) == FALSE

\* The test of createFromSizeAndPtr on the kind of data.
UnsupportedFormat(dataType) == dataType = TensorStateData

\* The vector of size elements behind ptr: basis vector number hot.
HostVector(size, hot) == [i \in 1..size |-> IF i = hot THEN Canon(1, 0) ELSE Zero]

\* log2 of a power of two.
RECURSIVE Log2(_)
Log2(n) == IF n <= 1 THEN 0 ELSE 1 + Log2(n \div 2)

\* TensorNetState::createFromStateVector: a network of log2(size) qubits
\* with one operator on all of them, whose tensor data is the vector in
\* freshly allocated device memory.
createFromStateVector(vec) ==
  [numQubits |-> Log2(Len(vec)),
   m_tensorOps |-> <<TensorOp(Iota(Log2(Len(vec))), <<>>, <<"new", 1>>, FALSE, FALSE)>>,
   deviceData |-> <<vec>>]

\* createFromSizeAndPtr(size, ptr, dataType): ret holds the new state.
createFromSizeAndPtr(m, size, hot, dataType) ==
  /\ last' =
       IF UnsupportedFormat(dataType)
       THEN Call("createFromSizeAndPtr", m, Args(dataType, size, <<>>),
                 "Cannot create tensornet backend's simulation state with MPS tensors",
                 <<>>, <<>>, {}, {})
       ELSE Call("createFromSizeAndPtr", m, Args(dataType, size, <<>>), "ok",
                 <<[m_state |-> createFromStateVector(HostVector(size, hot)),
                    m_contractedStateVec |-> <<>>,
                    scratchPad |-> ScratchPadRef,
                    m_cutnHandle |-> CutnHandleRef]>>,
                 <<>>, {"createFromStateVector"}, {})
  /\ UNCHANGED <<m_state, m_contractedStateVec, deviceMem, scratchPad>>

\* The sizes passed to createFromSizeAndPtr.
Sizes == {Pow2(n) : n \in 0..MaxQubits}

\* The basis-state assignments tried: every bit string of up to MaxQubits
\* bits, and the all-zero strings with one element replaced by 2.
RECURSIVE SeqsUpTo(_, _)
SeqsUpTo(S, n) ==
  IF n = 0 THEN {<<>>}
  ELSE LET shorter == SeqsUpTo(S, n - 1)
       IN shorter \cup {Append(s, x) : s \in {t \in shorter : Len(t) = n - 1}, x \in S}

BasisStates ==
  SeqsUpTo({0, 1}, MaxQubits)
  \cup UNION {{[k \in 1..n |-> IF k = i THEN 2 ELSE 0] : i \in 1..n} : n \in 1..MaxQubits}

\* ------------------------------------------------------- specifications
\* Two states and overlap: the builder fills both networks, and overlap is
\* called on every pair, with any state as the other one.  The plan needs
\* no workspace and the library calls fail in the transposition loop only;
\* SpecQuery has the other sizes and faults.
NextOverlap ==
  \/ \E m \in Mgrs : \E g \in GateLib(getNumQubits(m)) : AppendOp(m, g)
  \/ \E self \in Mgrs, other \in States,
        fault \in {NoFault} \cup 1..AtMemcpyHostToDevice :
       \E k \in LoopPlaces(other, fault) : overlap(self, other, 0, fault, k)

SpecOverlap == Init /\ [][NextOverlap]_vars

\* One state and every query on it; overlap is called with the state itself
\* and with a state of another kind, and any of its library calls may fail.
\* The other tensor-network state stays an empty network of no qubits.
InitQuery == Init /\ \A m \in Mgrs \ Queried : getNumQubits(m) = 0

NextQuery ==
  \/ \E m \in Queried : \E g \in GateLib(getNumQubits(m)) : AppendOp(m, g)
  \/ \E m \in Queried : \E b \in BasisStates : getAmplitude(m, b)
  \/ \E self \in Queried, other \in Queried \cup {NonTN}, fault \in Faults :
       \E worksize \in WorkSizes(fault), k \in LoopPlaces(other, fault) :
         overlap(self, other, worksize, fault, k)
  \/ \E m \in Queried : \E numElements \in Lengths(m) : toHost(m, numElements)
  \/ \E m \in Queried : dump(m)

SpecQuery == InitQuery /\ [][NextQuery]_vars

\* One state through its life: the builder fills its network, the queries
\* are made on it, new states are reconstructed from it, and destroyState
\* releases its network at any moment, after which every member may still
\* be called.
NextLifecycle ==
  \/ \E m \in Queried : \E g \in GateLib(getNumQubits(m)) : AppendOp(m, g)
  \/ \E m \in Queried : \E b \in BasisStates : getAmplitude(m, b)
  \/ \E self \in Queried, other \in Queried \cup {NonTN} :
       overlap(self, other, 0, NoFault, 0)
  \/ \E m \in Queried : \E numElements \in Lengths(m) : toHost(m, numElements)
  \/ \E m \in Queried : dump(m)
  \/ \E m \in Queried : \E tensorIdx \in TensorIndices : getTensor(m, tensorIdx)
  \/ \E m \in Queried : destroyState(m)
  \/ \E m \in Queried : \E size \in Sizes, dataType \in DataTypes :
       \E hot \in {1, size} : createFromSizeAndPtr(m, size, hot, dataType)

SpecLifecycle == InitQuery /\ [][NextLifecycle]_vars

\* ------------------------------------------------------------------ claims
\* C1: overlap never mutates self or other: whether it returns or fails,
\* the operator lists with their flags and the contents of every tensor
\* data handle are what they were before the call.
C1_OverlapMutatesNothing ==
  [][last'.op = "overlap" => m_state' = m_state /\ deviceMem' = deviceMem]_vars

\* C2: no execution of overlap ends with one of its temporaries (temporary
\* network state, device result buffer, accessor, workspace descriptor)
\* still allocated.
C2_TemporariesReleased == last.op = "overlap" => last.live = {}

\* C3: in every reachable state the cached vector is empty, or it has
\* 2^numQubits entries and equals the state vector of the current network.
C3_CacheMatchesNetwork ==
  \A m \in Mgrs :
    \/ m_contractedStateVec[m] = <<>>
    \/ /\ Len(m_contractedStateVec[m]) = Pow2(getNumQubits(m))
       /\ m_contractedStateVec[m] = getStateVector(deviceMem, m_state[m])

\* C3, amended: the cached vector is empty or has 2^numQubits entries; it
\* becomes non-empty only as the state vector the network has at that
\* moment, and once non-empty it keeps that value whatever is appended to
\* the network or written to its tensor data afterwards.
C3_CacheIsSnapshot ==
  /\ [](\A m \in Mgrs :
          \/ m_contractedStateVec[m] = <<>>
          \/ Len(m_contractedStateVec[m]) = Pow2(getNumQubits(m)))
  /\ [][\A m \in Mgrs :
          IF m_contractedStateVec[m] = <<>>
          THEN \/ m_contractedStateVec'[m] = <<>>
               \/ m_contractedStateVec'[m] = getStateVector(deviceMem, m_state[m])
          ELSE m_contractedStateVec'[m] = m_contractedStateVec[m]]_vars

\* A populated cache that no longer is the state vector of the network.
C3_Witness ==
  \E m \in Mgrs :
    /\ m_contractedStateVec[m] # <<>>
    /\ m_contractedStateVec[m] # getStateVector(deviceMem, m_state[m])

\* C4: at or below the threshold a valid getAmplitude asks the backend for
\* the full state vector only when the cache is empty, and then populates
\* it; with the cache populated it is answered from the cached vector with
\* no backend query; no operation changes a populated cache.  So the
\* vector is materialized for getAmplitude at most once.
C4_MaterializedOnce ==
  [][\A m \in Mgrs :
       /\ m_contractedStateVec[m] # <<>> =>
            m_contractedStateVec'[m] = m_contractedStateVec[m]
       /\ ( /\ last'.op = "getAmplitude" /\ last'.self = m /\ last'.status = "ok"
            /\ getNumQubits(m) <= g_maxQubitsForStateContraction )
          => IF m_contractedStateVec[m] = <<>>
             THEN /\ last'.queries = <<FullQuery>>
                  /\ m_contractedStateVec'[m] # <<>>
             ELSE /\ last'.queries = <<>>
                  /\ last'.ret = <<m_contractedStateVec[m]
                                     [BasisIndex(last'.args.basisState) + 1]>>]_vars

\* A getAmplitude answered from a cache that an earlier call populated and
\* that the network has moved away from since.
C4_Witness ==
  /\ last.op = "getAmplitude" /\ last.status = "ok" /\ last.queries = <<>>
  /\ m_contractedStateVec[last.self] # getStateVector(deviceMem, m_state[last.self])

\* C5: getAmplitude fails on an assignment of the wrong length, or with an
\* element other than 0 and 1, or empty; it then issues no backend query
\* and leaves the cached vector as it was.
C5_InvalidBasisStateRejected ==
  /\ []( ( /\ last.op = "getAmplitude"
            /\ \/ Len(last.args.basisState) # getNumQubits(last.self)
               \/ \E i \in 1..Len(last.args.basisState) :
                    last.args.basisState[i] \notin {0, 1}
               \/ last.args.basisState = <<>> )
         => last.status # "ok" /\ last.queries = <<>> /\ last.ret = <<>> )
  /\ [][ (last'.op = "getAmplitude" /\ last'.status # "ok")
         => m_contractedStateVec' = m_contractedStateVec ]_vars

\* A rejected getAmplitude on a state whose cache is populated.
C5_Witness ==
  /\ last.op = "getAmplitude" /\ last.status = "invalid basis state"
  /\ m_contractedStateVec[last.self] # <<>>

\* C6: overlap fails when either state has zero qubits, before a temporary
\* network is created and before any backend call.
C6_ZeroQubitsRejected ==
  ( /\ last.op = "overlap" /\ last.args.other \in Mgrs
    /\ (getNumQubits(last.self) = 0 \/ getNumQubits(last.args.other) = 0) )
  => /\ last.status # "ok"
     /\ last.api = {} /\ last.queries = <<>> /\ last.live = {}

\* C7: overlap fails with the resource error exactly when the workspace
\* size the plan asks for is greater than the capacity of the scratch pool;
\* it then has not attached the pool buffer nor computed anything (no
\* retry); with a size within the capacity a call that completes has
\* attached the buffer and computed once; the pool keeps its capacity.
C7_InsufficientWorkspace ==
  /\ scratchPad.scratchSize = MaxScratch
  /\ (last.op = "overlap" /\ last.args.other \in Mgrs) =>
       /\ last.status = Insufficient <=> last.args.size > scratchPad.scratchSize
       /\ Len(last.queries) <= 1
       /\ last.args.size > scratchPad.scratchSize =>
            /\ "cutensornetWorkspaceSetMemory" \notin last.api
            /\ last.queries = <<>> /\ last.ret = <<>>
       /\ (last.args.size <= scratchPad.scratchSize /\ last.status = "ok") =>
            /\ "cutensornetWorkspaceSetMemory" \in last.api
            /\ Len(last.queries) = 1 /\ Len(last.ret) = 1

\* An overlap that asked for more workspace than the pool holds.
C7_Witness ==
  /\ last.op = "overlap" /\ last.status = Insufficient
  /\ last.args.size = scratchPad.scratchSize + 1

\* C8: overlap on a state that is no tensor-network state fails before any
\* side effect: no tensor data is modified, no temporary network or device
\* buffer is created and no backend call is made.
C8_UnsupportedOtherRejected ==
  /\ []( (last.op = "overlap" /\ last.args.other \notin Mgrs)
         => /\ last.status = Unsupported
            /\ last.api = {} /\ last.queries = <<>> /\ last.live = {}
            /\ last.ret = <<>> )
  /\ [][ (last'.op = "overlap" /\ last'.args.other \notin Mgrs)
         => UNCHANGED <<m_state, m_contractedStateVec, deviceMem, scratchPad>> ]_vars

\* An overlap with a state of another kind, on a network that has
\* non-unitary tensor data an overlap would transpose.
C8_Witness ==
  /\ last.op = "overlap" /\ last.args.other = NonTN /\ last.status = Unsupported
  /\ \E i \in 1..getNumTensors(last.self) : ~m_state[last.self].m_tensorOps[i].isUnitary

\* C9: toHost always asks the backend for the state vector, also when the
\* amplitude cache is populated; what it writes is the state vector of the
\* network and not the cached one, and the cache is as it was.
C9_ToHostIsFresh ==
  /\ []( last.op = "toHost" =>
           /\ last.queries = <<FullQuery>>
           /\ last.status = "ok" =>
                \A i \in 1..last.args.size :
                  last.ret[i] = getStateVector(deviceMem, m_state[last.self])[i] )
  /\ [][ last'.op = "toHost" => m_contractedStateVec' = m_contractedStateVec ]_vars

\* A toHost that succeeded on a state whose populated cache differs from
\* the state vector of its network.
C9_Witness ==
  /\ last.op = "toHost" /\ last.status = "ok"
  /\ m_contractedStateVec[last.self] # <<>>
  /\ m_contractedStateVec[last.self] # getStateVector(deviceMem, m_state[last.self])

\* C10: toHost fails whenever numElements differs from 2^numQubits, smaller
\* or larger, and then no element of the buffer is written; when they are
\* equal, every element i of the buffer is entry i of the state vector.
C10_ToHostDimension ==
  last.op = "toHost" =>
    IF last.args.size # Pow2(getNumQubits(last.self))
    THEN /\ last.status = "Dimension mismatch"
         /\ \A i \in 1..BufferLen : last.ret[i] = Unwritten
    ELSE /\ last.status = "ok"
         /\ \A i \in 1..last.args.size :
              last.ret[i] = getStateVector(deviceMem, m_state[last.self])[i]
         /\ \A i \in (last.args.size + 1)..BufferLen : last.ret[i] = Unwritten

\* A toHost on a state of MaxQubits qubits refused for a buffer one element
\* short.
C10_Witness ==
  /\ last.op = "toHost" /\ last.status = "Dimension mismatch"
  /\ last.args.size = Pow2(getNumQubits(last.self)) - 1
  /\ getNumQubits(last.self) = MaxQubits

\* C11: on a state that holds its network, getTensor(i) fails with the
\* out-of-range error for every i >= getNumTensors(), and for every smaller
\* i it returns the data handle of operator i in application order (the
\* handle itself, no copy) with the extent 2 repeated 2 * |targets| times;
\* it leaves the network and the tensor data as they were.
C11_GetTensorRange ==
  /\ []( (last.op = "getTensor" /\ ~Released(last.self)) =>
           IF last.args.size >= getNumTensors(last.self)
           THEN last.status = "Invalid tensor index" /\ last.ret = <<>>
           ELSE LET opTensor == m_state[last.self].m_tensorOps[last.args.size + 1]
                IN /\ last.status = "ok" /\ Len(last.ret) = 1
                   /\ last.ret[1].data = opTensor.deviceData
                   /\ last.ret[1].data = <<last.self, last.args.size + 1>>
                   /\ Len(last.ret[1].extents) = 2 * Len(opTensor.targetQubitIds)
                   /\ \A i \in DOMAIN last.ret[1].extents : last.ret[1].extents[i] = 2 )
  /\ [][ last'.op = "getTensor" =>
           m_state' = m_state /\ deviceMem' = deviceMem ]_vars

\* getTensor refused at index getNumTensors() on a network that has operators.
C11_Witness ==
  /\ last.op = "getTensor" /\ last.status = "Invalid tensor index"
  /\ last.args.size = getNumTensors(last.self)
  /\ getNumTensors(last.self) = MaxOps

\* C12: destroyState releases the network and leaves the cached vector as
\* it was; afterwards the object remains usable: a second destroyState
\* changes nothing, a dump with a populated cache prints the cached vector,
\* and no call made after destroyState goes through the released network.
C12_UsableAfterDestroy ==
  /\ [][ last'.op = "destroyState" =>
           /\ m_state'[last'.self] = NullState
           /\ m_contractedStateVec' = m_contractedStateVec
           /\ deviceMem' = deviceMem
           /\ Released(last'.self) => m_state' = m_state ]_vars
  /\ []( (last.self \in Mgrs /\ Released(last.self)) =>
           /\ last.status \notin UndefinedOutcomes
           /\ (last.op = "dump" /\ m_contractedStateVec[last.self] # <<>>) =>
                last.ret = m_contractedStateVec[last.self] )

\* C13: createFromSizeAndPtr fails on data tagged as tensor (factored)
\* data, without creating a network; otherwise it returns a new state with
\* a network of its own (no tensor data handle of an existing state), an
\* empty amplitude cache and the scratch pad and cuTensorNet handle of
\* self; either way the network, the tensor data and the cache of self are
\* as they were.
C13_CreateFromSizeAndPtr ==
  /\ []( last.op = "createFromSizeAndPtr" =>
           IF last.args.other = TensorStateData
           THEN /\ last.status \notin {"ok"} \cup UndefinedOutcomes
                /\ last.ret = <<>> /\ last.api = {}
           ELSE /\ last.status = "ok" /\ Len(last.ret) = 1
                /\ last.ret[1].m_contractedStateVec = <<>>
                /\ last.ret[1].scratchPad = ScratchPadRef
                /\ last.ret[1].m_cutnHandle = CutnHandleRef
                /\ Pow2(last.ret[1].m_state.numQubits) = last.args.size
                /\ \A i \in DOMAIN last.ret[1].m_state.m_tensorOps :
                     last.ret[1].m_state.m_tensorOps[i].deviceData[1] \notin Mgrs )
  /\ [][ last'.op = "createFromSizeAndPtr" =>
           /\ m_state' = m_state /\ deviceMem' = deviceMem
           /\ m_contractedStateVec' = m_contractedStateVec
           /\ scratchPad' = scratchPad ]_vars

\* A state reconstructed from a state that has operators and a populated
\* cache.
C13_Witness ==
  /\ last.op = "createFromSizeAndPtr" /\ last.status = "ok"
  /\ m_contractedStateVec[last.self] # <<>>
  /\ getNumTensors(last.self) > 0

\* C14: overlap is symmetric: overlap(A, B) and the overlap(B, A) called
\* right after it on the same pair of states return the same value.
C14_OverlapSymmetric ==
  [][ ( /\ last.op = "overlap" /\ last.status = "ok"
        /\ last'.op = "overlap" /\ last'.status = "ok"
        /\ last.args.other \in Mgrs
        /\ last'.self = last.args.other /\ last'.args.other = last.self )
      => last'.ret = last.ret ]_vars

\* The network of the Bell-state kernel: h(q[0]); cx(q[0], q[1]).
IsBell(m) ==
  /\ getNumQubits(m) = 2 /\ getNumTensors(m) = 2
  /\ LET h == m_state[m].m_tensorOps[1]
         cx == m_state[m].m_tensorOps[2]
     IN /\ h.targetQubitIds = <<0>> /\ h.controlQubitIds = <<>>
        /\ Deref(deviceMem, h.deviceData) = Hadamard
        /\ cx.targetQubitIds = <<1>> /\ cx.controlQubitIds = <<0>>
        /\ Deref(deviceMem, cx.deviceData) = PauliX

\* C15: on the 2-qubit network of a Hadamard on qubit 0 followed by a
\* controlled-NOT with control 0 and target 1, queried once the network is
\* complete (the cache is empty, or was filled by such a query),
\* getAmplitude returns 1/sqrt(2) for [0,0] and for [1,1] and 0 for [0,1]
\* and for [1,0].
C15_BellState ==
  [][ ( /\ last'.op = "getAmplitude" /\ last'.status = "ok"
        /\ IsBell(last'.self)
        /\ \/ m_contractedStateVec[last'.self] = <<>>
           \/ /\ last.op = "getAmplitude" /\ last.status = "ok"
              /\ last.self = last'.self /\ last.queries = <<FullQuery>> )
      => last'.ret = <<IF last'.args.basisState[1] = last'.args.basisState[2]
                       THEN [re |-> 1, rt |-> 1] ELSE Zero>> ]_vars

\* The amplitude of [1,1] read by the first getAmplitude on the Bell network.
C15_Witness ==
  /\ last.op = "getAmplitude" /\ last.status = "ok" /\ IsBell(last.self)
  /\ last.args.basisState = <<1, 1>> /\ last.queries = <<FullQuery>>
  /\ last.ret = <<[re |-> 1, rt |-> 1]>>

\* C16: the temporary network of overlap has max(numQubits of self, of
\* other) qubits and |ops of self| + |ops of other| operators: the
\* operators of self in their order, every field as it is, then the
\* operators of other in reversed order, each with isAdjoint negated and
\* targets, controls and isUnitary (and the data handle) as they are; the
\* amplitude asked for pins every qubit 0 .. max-1 to 0.
C16_TemporaryNetwork ==
  (last.op = "overlap" /\ last.args.other \in Mgrs) =>
    LET ket == m_state[last.self].m_tensorOps
        bra == m_state[last.args.other].m_tensorOps
        nb == IF getNumQubits(last.self) >= getNumQubits(last.args.other)
              THEN getNumQubits(last.self) ELSE getNumQubits(last.args.other)
        all == last.temp.m_tensorOps
    IN /\ last.status = "ok" => last.temp # NullState
       /\ last.temp # NullState =>
            /\ last.temp.numQubits = nb
            /\ Len(all) = Len(ket) + Len(bra)
            /\ \A i \in 1..Len(ket) : all[i] = ket[i]
            /\ \A j \in 1..Len(bra) :
                 LET op == all[Len(ket) + j]
                     from == bra[Len(bra) + 1 - j]
                 IN /\ op.isAdjoint = ~from.isAdjoint
                    /\ op.targetQubitIds = from.targetQubitIds
                    /\ op.controlQubitIds = from.controlQubitIds
                    /\ op.isUnitary = from.isUnitary
                    /\ op.deviceData = from.deviceData
       /\ \A q \in 1..Len(last.queries) :
            /\ last.queries[q].kind = "accessor"
            /\ last.queries[q].modes = [i \in 1..nb |-> i - 1]
            /\ last.queries[q].values = [i \in 1..nb |-> 0]

\* An overlap that went through, of a state that holds two different
\* operators with itself.
C16_Witness ==
  /\ last.op = "overlap" /\ last.status = "ok" /\ last.args.other = last.self
  /\ getNumTensors(last.self) = 2
  /\ m_state[last.self].m_tensorOps[1].targetQubitIds
       # m_state[last.self].m_tensorOps[2].targetQubitIds
  /\ Len(last.temp.m_tensorOps) = 4

\* C17: on the cached path of getAmplitude the index read for a valid
\* assignment b of length n is the little-endian value, the sum over the
\* qubits i of b[i] * 2^i; it lies in 0 .. 2^n - 1, and no other valid
\* assignment of that length has the same index.
C17_LittleEndianIndex ==
  LET RECURSIVE Weighted(_, _)
      Weighted(b, i) ==
        IF i = 0 THEN 0 ELSE (b[i] * (2 ^ (i - 1))) + Weighted(b, i - 1)
  IN /\ \A n \in 1..MaxQubits : \A b \in [1..n -> {0, 1}] :
          /\ BasisIndex(b) = Weighted(b, n)
          /\ BasisIndex(b) \in 0..((2 ^ n) - 1)
          /\ \A other \in [1..n -> {0, 1}] :
               other # b => BasisIndex(other) # BasisIndex(b)
     /\ ( /\ last.op = "getAmplitude" /\ last.status = "ok"
          /\ getNumQubits(last.self) <= g_maxQubitsForStateContraction ) =>
          last.ret = <<m_contractedStateVec[last.self]
                         [Weighted(last.args.basisState, getNumQubits(last.self)) + 1]>>

\* The amplitude of [0,1] read at index 2 of a vector whose entries at
\* index 1 and 2 differ.
C17_Witness ==
  /\ last.op = "getAmplitude" /\ last.status = "ok"
  /\ last.args.basisState = <<0, 1>>
  /\ m_contractedStateVec[last.self][2] # m_contractedStateVec[last.self][3]
  /\ last.ret = <<m_contractedStateVec[last.self][3]>>

\* C18: for a state of more qubits than the threshold, and only for such a
\* state, a valid getAmplitude issues exactly one accessor query, which
\* pins every qubit i in 0 .. numQubits-1 to b[i], and returns that one
\* scalar (the entry of the state vector at the index of b); it never asks
\* for the full state vector, and the cache of such a state stays empty.
C18_AboveThreshold ==
  /\ \A m \in Mgrs :
       getNumQubits(m) > g_maxQubitsForStateContraction => m_contractedStateVec[m] = <<>>
  /\ (last.op = "getAmplitude" /\ last.status = "ok") =>
       LET n == getNumQubits(last.self)
           b == last.args.basisState
       IN IF n >= g_maxQubitsForStateContraction + 1
          THEN /\ last.queries =
                    <<[kind |-> "accessor", modes |-> [i \in 1..n |-> i - 1], values |-> b]>>
               /\ last.ret =
                    <<getStateVector(deviceMem, m_state[last.self])[BasisIndex(b) + 1]>>
          ELSE \A q \in 1..Len(last.queries) : last.queries[q].kind = "getStateVector"

\* A non-zero amplitude of a basis state other than 0...0, asked of a state
\* one qubit above the threshold.
C18_Witness ==
  /\ last.op = "getAmplitude" /\ last.status = "ok"
  /\ getNumQubits(last.self) = g_maxQubitsForStateContraction + 1
  /\ last.args.basisState = <<1, 1, 0>>
  /\ last.ret # <<Zero>>

\* C19: dump prints the cached vector when the cache is populated, and
\* otherwise a vector it asks the backend for, all amplitudes in index
\* order; it leaves the cache as it was, so a getAmplitude at or below the
\* threshold that follows a dump on an empty cache still asks the backend
\* for the state vector.
C19_Dump ==
  /\ []( last.op = "dump" =>
           /\ last.status = "ok"
           /\ IF m_contractedStateVec[last.self] # <<>>
              THEN /\ last.ret = m_contractedStateVec[last.self]
                   /\ last.queries = <<>>
              ELSE /\ last.ret = getStateVector(deviceMem, m_state[last.self])
                   /\ Len(last.ret) = 2 ^ getNumQubits(last.self)
                   /\ last.queries = <<FullQuery>> )
  /\ [][ last'.op = "dump" => m_contractedStateVec' = m_contractedStateVec ]_vars
  /\ [][ ( /\ last.op = "dump" /\ m_contractedStateVec[last.self] = <<>>
           /\ last'.op = "getAmplitude" /\ last'.self = last.self
           /\ last'.status = "ok"
           /\ getNumQubits(last.self) <= g_maxQubitsForStateContraction )
         => last'.queries = <<FullQuery>> ]_vars

\* A dump of a populated cache that differs from the state vector of the
\* network.
C19_Witness ==
  /\ last.op = "dump" /\ last.queries = <<>>
  /\ m_contractedStateVec[last.self] # <<>>
  /\ last.ret # getStateVector(deviceMem, m_state[last.self])
=============================================================================
